---- MODULE Spec2Model ----
(***************************************************************************)
(* A model of the Intent evaluator (src/src/lib.rs): the noun type Value   *)
(* and the structural operations kind, sub, eq, swap and eval.  The        *)
(* operations are pure; the state machine is a caller that holds one noun  *)
(* and applies one operation to it (or to an invocation built from it).    *)
(***************************************************************************)
EXTENDS Integers, Sequences, FiniteSets, TLC

VARIABLES arg, fn, input, result, overflow_checks

vars == <<arg, fn, input, result, overflow_checks>>

(***************************************************************************)
(* Bounds of the model.                                                    *)
(***************************************************************************)
\* Largest number of leaves of a noun the caller builds.
MaxLeaves == 4
\* Largest opcode the caller puts in front of a noun (6 is outside 0..5).
MaxOpcode == 6

(***************************************************************************)
(* Value (lib.rs 3-9): Error, Atom(i32), Cell(Rc<Value>, Rc<Value>).       *)
(***************************************************************************)
I32_MAX == 2147483647
I32_MIN == -I32_MAX - 1

Error == <<"Error">>
Atom(i) == <<"Atom", i>>
Cell(a, b) == <<"Cell", a, b>>

\* The outcome of a call that does not return: the thread panics with
\* "attempt to negate/subtract with overflow" (overflow checks on).
Panic == <<"Panic">>

\* Option<T> of the accessors.
None == <<"None">>
Some(x) == <<"Some", x>>

\* Atom values the caller uses: the most negative i32 and three small ones.
\* Results reach further (1 - (-1) = 2, I32_MIN - 1 wraps to I32_MAX).
AtomVals == {I32_MIN, -1, 0, 1}

LeafNouns == {Error} \cup {Atom(i) : i \in AtomVals}

RECURSIVE Leaves(_)
\* The number of leaves (Error and Atom nodes) of a noun.
Leaves(v) == IF v[1] = "Cell" THEN Leaves(v[2]) + Leaves(v[3]) ELSE 1

RECURSIVE NounsOfLeaves(_)
\* Every noun with exactly n leaves over LeafNouns.
NounsOfLeaves(n) ==
  IF n = 1 THEN LeafNouns
  ELSE UNION { { Cell(p[1], p[2]) : p \in NounsOfLeaves(i) \X NounsOfLeaves(n - i) }
               : i \in 1..(n - 1) }

\* The nouns the caller pairs the noun it holds with.  Every cell of a noun
\* with at most MaxLeaves leaves has a child with at most MaxLeaves \div 2,
\* so pairing with these builds every noun with at most MaxLeaves leaves.
HalfNouns == UNION { NounsOfLeaves(n) : n \in 1..(MaxLeaves \div 2) }

Opcodes == (-1)..MaxOpcode

(***************************************************************************)
(* Accessors (lib.rs 11-25).                                               *)
(***************************************************************************)
atom_value_default(v) == IF v[1] = "Atom" THEN Some(v[2]) ELSE Some(0)

atom_value(v) == IF v[1] = "Atom" THEN Some(v[2]) ELSE None

cell_content_flipped(v) == IF v[1] = "Cell" THEN Some(<<v[3], v[2]>>) ELSE None

cell_content_left_twice(v) == IF v[1] = "Cell" THEN Some(<<v[2], v[2]>>) ELSE None

cell_content(v) == IF v[1] = "Cell" THEN Some(<<v[2], v[3]>>) ELSE None

(***************************************************************************)
(* kind (lib.rs 27-33).                                                    *)
(***************************************************************************)
kind(v) ==
  CASE v[1] = "Error" -> Error
    [] v[1] = "Atom"  -> Atom(0)
    [] v[1] = "Cell"  -> Atom(1)

(***************************************************************************)
(* i32 arithmetic of sub and sub_cell.  `-v` and `a - b` on i32 overflow   *)
(* when the mathematical result is outside I32_MIN..I32_MAX: the build     *)
(* with overflow checks panics, the build without them wraps modulo 2^32.  *)
(* The tests are written so that no intermediate value leaves 32 bits.     *)
(***************************************************************************)
NegOverflows(v) == v = I32_MIN

SubOverflows(a, b) ==
  IF b >= 0 THEN a < I32_MIN + b ELSE a > I32_MAX + b

\* a - b modulo 2^32 as an i32, for a pair that overflows.
WrappedSub(a, b) ==
  IF b >= 0 THEN ((a - I32_MIN) + (I32_MAX - b)) + 1
  ELSE ((a - I32_MAX) + (I32_MIN - b)) - 1

\* Value::Atom(-v), lib.rs 40.
atom_neg(v) ==
  IF NegOverflows(v)
  THEN (IF overflow_checks THEN Panic ELSE Atom(I32_MIN))
  ELSE Atom(-v)

\* Value::Atom(a - b), lib.rs 54.
atom_sub(a, b) ==
  IF SubOverflows(a, b)
  THEN (IF overflow_checks THEN Panic ELSE Atom(WrappedSub(a, b)))
  ELSE Atom(a - b)

\* Value::Cell(Rc::new(l), Rc::new(r)) where l and r are calls (lib.rs 57-60,
\* 63-66, 69-72): a panic in either call unwinds through the construction.
cell_of(l, r) == IF l = Panic \/ r = Panic THEN Panic ELSE Cell(l, r)

(***************************************************************************)
(* sub and sub_cell (lib.rs 35-76).                                        *)
(***************************************************************************)
RECURSIVE sub_cell(_, _)

sub_cell(a, b) ==
  CASE a[1] = "Atom" /\ b[1] = "Atom" -> atom_sub(a[2], b[2])
    [] a[1] = "Cell" /\ b[1] = "Atom" ->
         cell_of(sub_cell(a[2], Atom(b[2])), sub_cell(a[3], Atom(b[2])))
    [] a[1] = "Atom" /\ b[1] = "Cell" ->
         cell_of(sub_cell(Atom(a[2]), b[2]), sub_cell(Atom(a[2]), b[3]))
    [] a[1] = "Cell" /\ b[1] = "Cell" ->
         cell_of(sub_cell(a[2], b[2]), sub_cell(a[3], b[3]))
    [] OTHER -> Error

sub(v) ==
  CASE v[1] = "Error" -> Error
    [] v[1] = "Atom"  -> atom_neg(v[2])
    [] v[1] = "Cell"  -> sub_cell(v[2], v[3])

(***************************************************************************)
(* eq and eq_cell (lib.rs 78-108).                                         *)
(***************************************************************************)
RECURSIVE eq_cell(_, _)

eq_cell_conjunction(a, b) ==
  CASE a[1] = "Atom" /\ b[1] = "Atom" -> Atom(IF a[2] = b[2] THEN 1 ELSE 0)
    [] a[1] = "Cell" /\ b[1] = "Cell" ->
         IF eq_cell(a[2], b[2]) = Atom(1) /\ eq_cell(a[3], b[3]) = Atom(1)
         THEN Atom(1) ELSE Atom(0)
    [] OTHER -> Atom(0)

eq_cell_no_subtrees(a, b) ==
  CASE a[1] = "Atom" /\ b[1] = "Atom" -> Atom(IF a[2] = b[2] THEN 1 ELSE 0)
    [] OTHER -> Atom(0)

eq_cell(a, b) ==
  CASE a[1] = "Atom" /\ b[1] = "Atom" -> Atom(IF a[2] = b[2] THEN 1 ELSE 0)
    [] a[1] = "Cell" /\ b[1] = "Cell" ->
         eq_cell(eq_cell(a[2], b[2]), eq_cell(a[3], b[3]))
    [] OTHER -> Atom(0)

eq(v) ==
  CASE v[1] = "Error" -> Error
    [] v[1] = "Atom"  -> Error
    [] v[1] = "Cell"  -> eq_cell(v[2], v[3])

(***************************************************************************)
(* swap (lib.rs 110-116).                                                  *)
(***************************************************************************)
RECURSIVE swap_deep(_)
swap_deep(v) ==
  CASE v[1] = "Error" -> Error
    [] v[1] = "Atom"  -> Atom(v[2])
    [] v[1] = "Cell"  -> Cell(swap_deep(v[3]), swap_deep(v[2]))

swap(v) ==
  CASE v[1] = "Error" -> Error
    [] v[1] = "Atom"  -> Atom(v[2])
    [] v[1] = "Cell"  -> Cell(v[3], v[2])

(***************************************************************************)
(* eval (lib.rs 118-139): the dispatcher of the file, opcodes 0..3.        *)
(***************************************************************************)
eval_shifted(v) ==
  CASE v[1] = "Error" -> Error
    [] v[1] = "Atom"  -> Error
    [] v[1] = "Cell"  ->
         LET a == atom_value(v[2])
             b == v[3]
         IN  IF a = None THEN Error
             ELSE CASE a[2] = 0 -> kind(b)
                    [] a[2] = 1 -> sub(b)
                    [] a[2] = 2 -> swap(b)
                    [] a[2] = 3 -> eq(b)
                    [] OTHER    -> Error

eval(v) ==
  CASE v[1] = "Error" -> Error
    [] v[1] = "Atom"  -> Error
    [] v[1] = "Cell"  ->
         LET a == atom_value(v[2])
             b == v[3]
         IN  IF a = None THEN Error
             ELSE CASE a[2] = 0 -> kind(b)
                    [] a[2] = 1 -> sub(b)
                    [] a[2] = 2 -> eq(b)
                    [] a[2] = 3 -> swap(b)
                    [] OTHER    -> Error

(***************************************************************************)
(* The superset dispatcher the specification describes (opcodes 4 and 5    *)
(* added to the four of eval).  Its text is not in lib.rs; compose, select *)
(* and eval_rc follow section 4.5 of the specification, over the accessors *)
(* of lib.rs.                                                              *)
(***************************************************************************)
RECURSIVE eval_rc(_)

\* Opcode 4: operand Cell(f, Cell(x, y)) -> eval(Cell(eval(Cell(f, x)), eval(Cell(f, y)))).
compose(operand) ==
  LET outer == cell_content(operand)
  IN  IF outer = None THEN Error
      ELSE LET f == outer[2][1]
               inner == cell_content(outer[2][2])
           IN  IF inner = None THEN Error
               ELSE LET l == eval_rc(Cell(f, inner[2][1]))
                        r == IF l = Panic THEN Panic
                             ELSE eval_rc(Cell(f, inner[2][2]))
                    IN  IF l = Panic \/ r = Panic THEN Panic
                        ELSE eval_rc(Cell(l, r))

\* Opcode 5: operand Cell(selector, Cell(b, c)) -> b for selector 0, c for 1.
select(operand) ==
  LET outer == cell_content(operand)
  IN  IF outer = None THEN Error
      ELSE LET selector == atom_value(outer[2][1])
               inner == cell_content(outer[2][2])
           IN  IF selector = None \/ inner = None THEN Error
               ELSE CASE selector[2] = 0 -> inner[2][1]
                      [] selector[2] = 1 -> inner[2][2]
                      [] OTHER           -> Error

eval_rc(v) ==
  IF v[1] = "Cell" /\ atom_value(v[2]) = Some(4) THEN compose(v[3])
  ELSE IF v[1] = "Cell" /\ atom_value(v[2]) = Some(5) THEN select(v[3])
  ELSE eval(v)

(***************************************************************************)
(* The caller.  arg is the noun it holds, input the noun it passed to the  *)
(* last call, fn the function called and result what came back.            *)
(***************************************************************************)
NoResult == <<"NoResult">>

Init ==
  /\ arg \in LeafNouns
  /\ overflow_checks \in BOOLEAN
  /\ fn = "none"
  /\ input = arg
  /\ result = NoResult

\* Value::Cell(Rc::new(..), Rc::new(..)) by the caller, as the tests build
\* their inputs (lib.rs 164-170, 227-233, 248-254).
MkCell(w, left) ==
  /\ fn = "none"
  /\ Leaves(arg) + Leaves(w) <= MaxLeaves
  /\ arg' = (IF left THEN Cell(w, arg) ELSE Cell(arg, w))
  /\ input' = arg'
  /\ UNCHANGED <<fn, result, overflow_checks>>

Call(name, in, out) ==
  /\ fn = "none"
  /\ fn' = name
  /\ input' = in
  /\ result' = out
  /\ UNCHANGED <<arg, overflow_checks>>

CallKind == Call("kind", arg, kind(arg))

CallSub == Call("sub", arg, sub(arg))

CallEq == Call("eq", arg, eq(arg))

CallSwap == Call("swap", arg, swap(arg))

\* eval on the noun as it is.
CallEval == Call("eval", arg, eval(arg))

CallEvalRc == Call("eval_rc", arg, eval_rc(arg))

\* eval on Cell(Atom(o), arg), as the tests kind_of_* build it (lib.rs 150-153).
CallEvalOp(o) ==
  /\ Leaves(arg) < MaxLeaves
  /\ Call("eval", Cell(Atom(o), arg), eval(Cell(Atom(o), arg)))

CallEvalRcOp(o) ==
  /\ Leaves(arg) < MaxLeaves
  /\ Call("eval_rc", Cell(Atom(o), arg), eval_rc(Cell(Atom(o), arg)))

\* eq on a cell whose two children are the same shared noun (two clones of
\* one Rc).
CallEqShared ==
  /\ Leaves(arg) < MaxLeaves
  /\ Call("eq", Cell(arg, arg), eq(Cell(arg, arg)))

CallEvalEqShared ==
  /\ Leaves(arg) < MaxLeaves
  /\ Call("eval", Cell(Atom(2), Cell(arg, arg)), eval(Cell(Atom(2), Cell(arg, arg))))

Next ==
  \/ \E w \in HalfNouns, left \in BOOLEAN : MkCell(w, left)
  \/ CallKind
  \/ CallSub
  \/ CallEq
  \/ CallSwap
  \/ CallEval
  \/ CallEvalRc
  \/ \E o \in Opcodes : CallEvalOp(o)
  \/ \E o \in Opcodes : CallEvalRcOp(o)
  \/ CallEqShared
  \/ CallEvalEqShared

Spec == Init /\ [][Next]_vars

(***************************************************************************)
(* Vocabulary of the properties.                                           *)
(***************************************************************************)
RECURSIVE ErrorFree(_)
\* No Error anywhere inside the noun.
ErrorFree(v) ==
  CASE v[1] = "Error" -> FALSE
    [] v[1] = "Atom"  -> TRUE
    [] v[1] = "Cell"  -> ErrorFree(v[2]) /\ ErrorFree(v[3])
    [] OTHER -> FALSE

IsEval == fn \in {"eval", "eval_rc"}

\* What stands for Atom(n) when the mathematical integer n is outside i32:
\* no Value is equal to it.
Unrepresentable == <<"Unrepresentable">>

\* Atom(-a) and Atom(a - b) over the mathematical integers.
MathNeg(a) == IF a = I32_MIN THEN Unrepresentable ELSE Atom(-a)

MathSub(a, b) == IF SubOverflows(a, b) THEN Unrepresentable ELSE Atom(a - b)

RECURSIVE BroadcastSub(_, _)
\* The broadcast rules of section 4.2 over the mathematical integers.
BroadcastSub(a, b) ==
  CASE a[1] = "Atom" /\ b[1] = "Atom" -> MathSub(a[2], b[2])
    [] a[1] = "Cell" /\ b[1] = "Atom" ->
         Cell(BroadcastSub(a[2], b), BroadcastSub(a[3], b))
    [] a[1] = "Atom" /\ b[1] = "Cell" ->
         Cell(BroadcastSub(a, b[2]), BroadcastSub(a, b[3]))
    [] a[1] = "Cell" /\ b[1] = "Cell" ->
         Cell(BroadcastSub(a[2], b[2]), BroadcastSub(a[3], b[3]))
    [] OTHER -> Error

(***************************************************************************)
(* C1.  Dispatcher delegation: eval(Cell(Atom(0), x)) = kind(x), with      *)
(* kind(Error) = Error, kind(Atom(i)) = Atom(0), kind(Cell(a, b)) =        *)
(* Atom(1); eval(Cell(Atom(1), x)) = sub(x); eval(Cell(Atom(2), x)) =      *)
(* eq(x); eval(Cell(Atom(3), x)) = swap(x), for every noun x.              *)
(***************************************************************************)
DispatcherDelegation ==
  (IsEval /\ input[1] = "Cell" /\ input[2][1] = "Atom") =>
    LET k == input[2][2]
        x == input[3]
    IN  /\ k = 0 => /\ x[1] = "Error" => result = Error
                    /\ x[1] = "Atom"  => result = Atom(0)
                    /\ x[1] = "Cell"  => result = Atom(1)
        /\ k = 1 => result = sub(x)
        /\ k = 2 => result = eq(x)
        /\ k = 3 => result = swap(x)

DelegatedSubtraction ==
  /\ fn = "eval"
  /\ input = Cell(Atom(1), Cell(Cell(Atom(1), Atom(0)), Atom(-1)))
  /\ result = Cell(Atom(2), Atom(1))

MalformedInvocationIsError ==
  IsEval =>
    /\ input[1] \in {"Error", "Atom"} => result = Error
    /\ (input[1] = "Cell" /\ input[2][1] # "Atom") => result = Error
    /\ (input[1] = "Cell" /\ input[2][1] = "Atom" /\ input[2][2] \notin 0..5)
         => result = Error

NonAtomOpcodeRejected ==
  /\ fn = "eval"
  /\ input = Cell(Cell(Atom(0), Atom(0)), Cell(Atom(1), Atom(1)))
  /\ result = Error

(***************************************************************************)
(* C5.  Structural subtraction follows the broadcast rules for every noun: *)
(* sub(Error) = Error, sub(Atom(a)) = Atom(-a), sub(Cell(a, b)) =          *)
(* sub_cell(a, b) with the four Atom/Cell rules and Error when either side *)
(* is Error.                                                               *)
(***************************************************************************)
SubFollowsBroadcastRules ==
  fn = "sub" =>
    /\ input[1] = "Error" => result = Error
    /\ input[1] = "Atom"  => result = MathNeg(input[2])
    /\ input[1] = "Cell"  => result = BroadcastSub(input[2], input[3])

(***************************************************************************)
(* C6.  Structural equality follows the literal recursive rules and        *)
(* returns only Atom(1), Atom(0) or Error: eq(Error) = eq(Atom(a)) =       *)
(* Error; on a cell, two atoms give Atom(1) when equal and Atom(0)         *)
(* otherwise, two cells give eq_cell applied to the two sub-results (not   *)
(* their conjunction), every other pair of shapes gives Atom(0).           *)
(***************************************************************************)
EqFollowsRecursiveRules ==
  fn = "eq" =>
    /\ result \in {Atom(1), Atom(0), Error}
    /\ input[1] \in {"Error", "Atom"} => result = Error
    /\ input[1] = "Cell" =>
         LET a == input[2]
             b == input[3]
         IN  CASE a[1] = "Atom" /\ b[1] = "Atom" ->
                    result = (IF a[2] = b[2] THEN Atom(1) ELSE Atom(0))
               [] a[1] = "Cell" /\ b[1] = "Cell" ->
                    result = eq(Cell(eq(Cell(a[2], b[2])), eq(Cell(a[3], b[3]))))
               [] OTHER -> result = Atom(0)

\* Both pairs of children differ, and the two Atom(0) sub-results are equal.
UnequalSubtreesCompareEqual ==
  /\ fn = "eq"
  /\ input = Cell(Cell(Atom(0), Atom(1)), Cell(Atom(1), Atom(0)))
  /\ result = Atom(1)

(***************************************************************************)
(* C7.  Atom arithmetic is exact and never faults: sub(Atom(a)) =          *)
(* Atom(-a) and sub(Cell(Atom(a), Atom(b))) = Atom(a - b) over the         *)
(* mathematical integers, for every a and b an atom can hold; no wrap      *)
(* around, no abort.                                                       *)
(***************************************************************************)
AtomArithmeticExact ==
  fn = "sub" =>
    /\ input[1] = "Atom" => (result # Panic /\ result = MathNeg(input[2]))
    /\ (input[1] = "Cell" /\ input[2][1] = "Atom" /\ input[3][1] = "Atom")
         => (result # Panic /\ result = MathSub(input[2][2], input[3][2]))

(***************************************************************************)
(* C8.  swap exchanges exactly one level and is an involution:             *)
(* swap(Cell(a, b)) = Cell(b, a) with a and b unchanged, swap(Atom(a)) =   *)
(* Atom(a), swap(Error) = Error, swap(swap(x)) = x.                        *)
(***************************************************************************)
SwapInvolution ==
  fn = "swap" =>
    /\ input[1] = "Cell"  => result = Cell(input[3], input[2])
    /\ input[1] = "Atom"  => result = input
    /\ input[1] = "Error" => result = Error
    /\ swap(result) = input

SwappedOneLevel ==
  /\ fn = "swap"
  /\ input = Cell(Cell(Atom(0), Atom(1)), Atom(-1))
  /\ result = Cell(Atom(-1), Cell(Atom(0), Atom(1)))

(***************************************************************************)
(* C9.  Equality of equal subtrees: for every noun x without Error inside, *)
(* of any depth, eq(Cell(x, x)) = Atom(1) and eval(Cell(Atom(2), Cell(x,   *)
(* x))) = Atom(1).                                                         *)
(***************************************************************************)
EqualSubtreesAreEqual ==
  /\ (fn = "eq" /\ input[1] = "Cell" /\ input[2] = input[3] /\ ErrorFree(input[2]))
       => result = Atom(1)
  /\ (IsEval /\ input[1] = "Cell" /\ input[2] = Atom(2) /\ input[3][1] = "Cell"
        /\ input[3][2] = input[3][3] /\ ErrorFree(input[3][2]))
       => result = Atom(1)

DeepEqualSubtrees ==
  /\ fn = "eval"
  /\ input = Cell(Atom(2), Cell(Cell(Cell(Atom(0), Atom(1)), Atom(-1)),
                                Cell(Cell(Atom(0), Atom(1)), Atom(-1))))
  /\ result = Atom(1)

(***************************************************************************)
(* C10.  sub produces no partial results: whenever sub(v) (or              *)
(* eval(Cell(Atom(1), v))) returns, it returns either Error itself or a    *)
(* noun with no Error anywhere inside it.                                  *)
(***************************************************************************)
SubNoPartialResults ==
  ( /\ \/ fn = "sub"
       \/ IsEval /\ input[1] = "Cell" /\ input[2] = Atom(1)
    /\ result # Panic )
  => (result = Error \/ ErrorFree(result))

====
